---- MODULE Spec2Model ----
(***************************************************************************)
(* Background RAG setup state machine of the coding agent:                 *)
(*   - BackgroundRAGState (src/src/background_state.py), the lock-guarded  *)
(*     status register;                                                    *)
(*   - _run_rag_background_setup (src/src/coding_agent.py) together with   *)
(*     setup_rag_for_directory (src/src/rag_setup.py), the single worker;  *)
(*   - query_rag_codebase_impl (src/src/rag_tool.py), the query tool.      *)
(*                                                                         *)
(* Python strings are modelled as sequences of text chunks, so that an     *)
(* f-string is the concatenation of its literal parts and the values it    *)
(* interpolates.  None is the empty sequence, the empty string is <<"">>.  *)
(***************************************************************************)
EXTENDS Integers, Sequences, FiniteSets, TLC

\* ------------------------------------------------------------------ bounds
\* number of concurrent query-tool invocation contexts
NumTools == 2
\* number of times the host runs the startup callback
MaxCallbacks == 2
\* number of successive calls of _ensure_gcs_bucket_exists
MaxEnsureCalls == 2

\* ------------------------------------------------------------ value domains
None == << >>
EmptyStr == <<"">>

\* Python truthiness of an Optional[str] / Optional[object]
Truthy(v) == v # None /\ v # EmptyStr

\* texts str(e) of the exceptions the remote collaborators may raise
Exceptions == {"e1", "e2"}

\* corpus names and model handles handed to the transition methods directly
ApiCorpusNames == {<<"corpusA">>, <<"corpusB">>}
ApiModels == {<<"GenerativeModel", "mA">>, <<"GenerativeModel", "mB">>}
ApiErrors == {<<"errA">>, <<"errB">>}

SetupStatus == {"pending", "running_setup", "running_model_init", "complete", "failed"}
NonTerminal == {"pending", "running_setup", "running_model_init"}
Terminal == {"complete", "failed"}

\* a tool invocation context that holds no result
NoResult == [status |-> "none"]
\* generate_content was not called
NoOutcome == [kind |-> "none", text |-> << >>]

\* state.py, RagState.__init__ before GOOGLE_CLOUD_PROJECT is read
NewRagState ==
  [project_id |-> EmptyStr, gcs_bucket_name |-> None, target_directory |-> None,
   rag_corpus_name |-> None]

\* upload_directory_to_gcs has not returned
NoWalkResult == [kind |-> "none", value |-> << >>]

\* --------------------------------------------------------------- variables
VARIABLES
  background_state,   \* the BackgroundRAGState object (its four guarded fields)
  held,               \* history: every value the object has held while the
                      \* worker ran on it
  call,               \* last transition method called directly on the object
  wpc,                \* position of the worker thread
  rag_corpus,         \* worker local: name of the corpus found or created
  w_trace,            \* history: the steps the worker has executed, in order
  bucket_exists,      \* remote store: the bucket exists
  bucket_uniform,     \* remote store: uniform bucket-level access is enabled
  corpus_exists,      \* remote index: a corpus with the display name exists
  tpc,                \* position of each query-tool invocation
  t_status,           \* tool local: status
  t_model,            \* tool local: internal_model
  t_outcome,          \* what generate_content did in the invocation
  result,             \* what the tool invocation returned
  generate_calls,     \* generate_content calls made by the invocation
  callbacks,          \* invocations of before_agent_starts so far
  states_created,     \* BackgroundRAGState objects constructed so far
  threads_started,    \* worker threads started so far
  ensure_log,         \* history: the _ensure_gcs_bucket_exists calls made in
                      \* succession, each with the store it found and its outcome
  walk_case,          \* the local directory upload_directory_to_gcs is run on
  walk_pc,            \* position of upload_directory_to_gcs
  ignore_patterns,    \* upload local: ignore_patterns
  walk_stack,         \* os.walk: directories still to be yielded, next first
  walk_root,          \* upload local: root, the directory being processed
  walk_files,         \* upload local: files of root not yet processed
  uploaded_files,     \* upload local: uploaded_files
  skipped_files,      \* upload local: skipped_files
  ignored_files,      \* upload local: ignored_files
  ignored_dirs_count, \* upload local: ignored_dirs_count
  visited,            \* history: directories yielded by os.walk and files
                      \* reached by the file loop
  ignored_dir_log,    \* history: the directories counted as ignored
  upload_log,         \* history: the upload attempts and how each ended
  walk_result,        \* what upload_directory_to_gcs returned or raised
  global_rag_state,   \* main.py: the RagState instance of the setup utility
  sync_pc,            \* position of the setup utility
  sync_return,        \* what run_rag_setup_and_save_state returned
  sync_raised,        \* the exception its try block caught, None when none
  state_file          \* content of .rag_state.json, None when not written

bgVars == <<background_state, held>>
apiVars == <<call>>
workerVars == <<wpc, rag_corpus, w_trace>>
envVars == <<bucket_exists, bucket_uniform, corpus_exists>>
toolVars == <<tpc, t_status, t_model, t_outcome, result, generate_calls>>
startVars == <<callbacks, states_created, threads_started>>
\* the variables of the other specifications, untouched by worker and tool
ensureVars == <<ensure_log>>
walkVars == <<walk_case, walk_pc, ignore_patterns, walk_stack, walk_root, walk_files,
              uploaded_files, skipped_files, ignored_files, ignored_dirs_count,
              visited, ignored_dir_log, upload_log, walk_result>>
syncVars == <<global_rag_state, sync_pc, sync_return, sync_raised, state_file>>
auxVars == <<ensureVars, walkVars, syncVars>>
otherVars == <<startVars, auxVars>>
vars == <<background_state, held, call, wpc, rag_corpus, w_trace, bucket_exists,
          bucket_uniform, corpus_exists, tpc, t_status, t_model, t_outcome, result,
          generate_calls, callbacks, states_created, threads_started, ensure_log,
          walk_case, walk_pc, ignore_patterns, walk_stack, walk_root, walk_files,
          uploaded_files, skipped_files, ignored_files, ignored_dirs_count,
          visited, ignored_dir_log, upload_log, walk_result,
          global_rag_state, sync_pc, sync_return, sync_raised, state_file>>

Tools == 1..NumTools

\* ------------------------------------------------------ BackgroundRAGState
\* __init__: status pending, everything else None
NewBackgroundRAGState ==
  [setup_status |-> "pending",
   error_message |-> None,
   rag_corpus_name |-> None,
   internal_rag_model |-> None]

set_status_running_setup_skips(self) ==
  [self EXCEPT !.setup_status = "running_model_init",
               !.error_message = None]

set_status_running_setup_keeps_error(self) ==
  [self EXCEPT !.setup_status = "running_setup"]

set_status_running_setup(self) ==
  [self EXCEPT !.setup_status = "running_setup",
               !.error_message = None]

set_status_running_model_init_unguarded(self, corpus_name) ==
  [self EXCEPT !.setup_status = "running_model_init",
               !.rag_corpus_name = corpus_name,
               !.error_message = None]

set_status_running_model_init_drops_corpus(self, corpus_name) ==
  IF self.setup_status = "running_setup"
  THEN [self EXCEPT !.setup_status = "running_model_init",
                    !.error_message = None]
  ELSE self

set_status_running_model_init(self, corpus_name) ==
  IF self.setup_status = "running_setup"
  THEN [self EXCEPT !.setup_status = "running_model_init",
                    !.rag_corpus_name = corpus_name,
                    !.error_message = None]
  ELSE self

set_status_complete_drops_model(self, model) ==
  IF self.setup_status = "running_model_init"
  THEN [self EXCEPT !.setup_status = "complete",
                    !.error_message = None]
  ELSE self

set_status_complete_unguarded(self, model) ==
  [self EXCEPT !.setup_status = "complete",
               !.internal_rag_model = model,
               !.error_message = None]

set_status_complete(self, model) ==
  IF self.setup_status = "running_model_init"
  THEN [self EXCEPT !.setup_status = "complete",
                    !.internal_rag_model = model,
                    !.error_message = None]
  ELSE self

set_status_failed_from_setup_only(self, error) ==
  IF self.setup_status = "running_setup"
  THEN [self EXCEPT !.setup_status = "failed",
                    !.error_message = error,
                    !.internal_rag_model = None]
  ELSE self

set_status_failed_keep_first(self, error) ==
  IF self.setup_status = "failed"
  THEN self
  ELSE [self EXCEPT !.setup_status = "failed",
                    !.error_message = error,
                    !.internal_rag_model = None]

set_status_failed(self, error) ==
  [self EXCEPT !.setup_status = "failed",
               !.error_message = error,
               !.internal_rag_model = None]

\* ------------------------------------------- direct calls on the state object
\* the object takes value s (history: s is now one of the values held)
Assign(s) ==
  /\ background_state' = s
  /\ held' = held \cup {s}

\* A caller (any thread) invokes one transition method; the lock makes the
\* whole method body one atomic step.  call is the history of these calls;
\* held is the history of the worker's run and is not extended here.
NoCall == [op |-> "none", arg |-> None, pre |-> "pending", n |-> 0]

Record(op, arg) ==
  call' = [op |-> op, arg |-> arg, pre |-> background_state.setup_status,
           n |-> 1 - call.n]

CallRunningSetup ==
  /\ background_state' = set_status_running_setup(background_state)
  /\ Record("set_status_running_setup", None)
  /\ UNCHANGED <<held, workerVars, envVars, toolVars, otherVars>>

CallRunningModelInit ==
  \E c \in ApiCorpusNames :
    /\ background_state' = set_status_running_model_init(background_state, c)
    /\ Record("set_status_running_model_init", c)
    /\ UNCHANGED <<held, workerVars, envVars, toolVars, otherVars>>

CallComplete ==
  \E m \in ApiModels :
    /\ background_state' = set_status_complete(background_state, m)
    /\ Record("set_status_complete", m)
    /\ UNCHANGED <<held, workerVars, envVars, toolVars, otherVars>>

CallFailed ==
  \E e \in ApiErrors :
    /\ background_state' = set_status_failed(background_state, e)
    /\ Record("set_status_failed", e)
    /\ UNCHANGED <<held, workerVars, envVars, toolVars, otherVars>>

\* ------------------------------------------------------------------- Init
\* The state once before_agent_starts has run for the first time: the state
\* object is constructed, the worker thread is started, the tool is bound.
Init ==
  /\ background_state = NewBackgroundRAGState
  /\ held = {NewBackgroundRAGState}
  /\ call = NoCall
  /\ wpc = "validate"
  /\ rag_corpus = None
  /\ w_trace = << >>
  /\ bucket_exists \in BOOLEAN
  /\ bucket_uniform \in BOOLEAN
  /\ (~bucket_exists => ~bucket_uniform)
  /\ corpus_exists \in BOOLEAN
  /\ tpc = [t \in Tools |-> "idle"]
  /\ t_status = [t \in Tools |-> "pending"]
  /\ t_model = [t \in Tools |-> None]
  /\ t_outcome = [t \in Tools |-> NoOutcome]
  /\ result = [t \in Tools |-> NoResult]
  /\ generate_calls = [t \in Tools |-> 0]
  /\ callbacks = 1
  /\ states_created = 1
  /\ threads_started = 1
  /\ ensure_log = << >>
  /\ walk_case = "none"
  /\ walk_pc = "idle"
  /\ ignore_patterns = << >>
  /\ walk_stack = << >>
  /\ walk_root = << >>
  /\ walk_files = << >>
  /\ uploaded_files = 0
  /\ skipped_files = 0
  /\ ignored_files = 0
  /\ ignored_dirs_count = 0
  /\ visited = {}
  /\ ignored_dir_log = << >>
  /\ upload_log = << >>
  /\ walk_result = NoWalkResult
  /\ global_rag_state = NewRagState
  /\ sync_pc = "idle"
  /\ sync_return = "none"
  /\ sync_raised = None
  /\ state_file = None

\* ----------------------------------------------------------------- worker
\* Arguments before_agent_starts passes to the worker.  PROJECT_ID and the
\* bucket name are checked non-empty when the module is loaded; the target
\* directory was a directory then, and may have stopped being one since.
ProjectIds == {<<"my-project">>}
BucketNames == {<<"ident-my-proje-rag-store">>}
RAG_MODEL_ID == "gemini-1.5-flash-001"
CorpusResourceName == <<"projects/p/locations/us-central1/ragCorpora/1">>

\* positions of the worker at which a remote call is outstanding, and the
\* status the state object has there
RemoteCallPositions ==
  {"sdk_init", "ensure_bucket", "upload", "corpus", "import", "model_init"}
StatusAt(p) == IF p = "model_init" THEN "running_model_init" ELSE "running_setup"

\* the steps of setup_rag_for_directory that call a remote collaborator
SetupSteps == {"sdk_init", "ensure_bucket", "upload", "corpus", "import"}

\* history: the worker has executed step name; failed is the cause when the
\* step failed, None when it succeeded
Did(name, failed) == [step |-> name, failed |-> failed]

\* setup_rag_for_directory, the three argument checks: the message of the
\* first check that fails, None when all pass
ValidationError(project_id, gcs_bucket_name, is_dir) ==
  IF ~Truthy(project_id) THEN <<"Project ID missing.">>
  ELSE IF ~Truthy(gcs_bucket_name) THEN <<"GCS bucket name must be provided.">>
  ELSE IF ~is_dir THEN <<"Error: Provided path is not a valid directory: ", "target_dir">>
  ELSE None

\* _run_rag_background_setup once setup_rag_for_directory has returned
\* corpus_name: the state it leaves
AfterSetup(self, corpus_name) ==
  IF ~Truthy(corpus_name)
  THEN IF self.setup_status # "failed"
       THEN set_status_failed(self, <<"Corpus setup returned None without explicit error.">>)
       ELSE self
  ELSE set_status_running_model_init(self, corpus_name)

\* a step of setup_rag_for_directory failed: mark failed, return None
SetupFails(errmsg) ==
  /\ Assign(AfterSetup(set_status_failed(background_state, errmsg), None))
  /\ wpc' = "done"

\* the argument checks with the return after a failed check left out
WorkerValidate_continues ==
  /\ wpc = "validate"
  /\ \E project_id \in ProjectIds, gcs_bucket_name \in BucketNames, is_dir \in BOOLEAN :
       LET err == ValidationError(project_id, gcs_bucket_name, is_dir) IN
       /\ w_trace' = Append(w_trace, Did("validate", err))
       /\ Assign(IF err # None
                 THEN set_status_failed(background_state, err)
                 ELSE set_status_running_setup(background_state))
       /\ wpc' = "sdk_init"
  /\ UNCHANGED <<call, rag_corpus, envVars, toolVars, otherVars>>

\* setup_rag_for_directory up to its first remote call: the argument checks,
\* each of which marks failed and returns None, then set_status_running_setup
WorkerValidate ==
  /\ wpc = "validate"
  /\ \E project_id \in ProjectIds, gcs_bucket_name \in BucketNames, is_dir \in BOOLEAN :
       LET err == ValidationError(project_id, gcs_bucket_name, is_dir) IN
       /\ w_trace' = Append(w_trace, Did("validate", err))
       /\ IF err # None
          THEN SetupFails(err)
          ELSE /\ Assign(set_status_running_setup(background_state))
               /\ wpc' = "sdk_init"
  /\ UNCHANGED <<call, rag_corpus, envVars, toolVars, otherVars>>

WorkerSdkInit_no_return ==
  /\ wpc = "sdk_init"
  /\ \/ /\ wpc' = "ensure_bucket"
        /\ w_trace' = Append(w_trace, Did("sdk_init", None))
        /\ UNCHANGED bgVars
     \/ \E e \in Exceptions :
          /\ Assign(set_status_failed(background_state,
                                      <<"Failed to initialize Vertex AI SDK: ", e>>))
          /\ wpc' = "ensure_bucket"
          /\ w_trace' = Append(w_trace, Did("sdk_init", <<e>>))
  /\ UNCHANGED <<call, rag_corpus, envVars, toolVars, otherVars>>

\* aiplatform.init returns or raises
WorkerSdkInit ==
  /\ wpc = "sdk_init"
  /\ \/ /\ wpc' = "ensure_bucket"
        /\ w_trace' = Append(w_trace, Did("sdk_init", None))
        /\ UNCHANGED bgVars
     \/ \E e \in Exceptions :
          /\ SetupFails(<<"Failed to initialize Vertex AI SDK: ", e>>)
          /\ w_trace' = Append(w_trace, Did("sdk_init", <<e>>))
  /\ UNCHANGED <<call, rag_corpus, envVars, toolVars, otherVars>>

\* the same function with the existence check left out
ensure_gcs_bucket_exists_always_creates(exists, uniform) ==
  { [exists |-> exists, uniform |-> uniform, attempted |-> FALSE, created |-> FALSE,
     raised |-> <<e>>] : e \in Exceptions }
  \cup
  { [exists |-> exists, uniform |-> uniform, attempted |-> TRUE, created |-> FALSE,
     raised |-> <<e>>] : e \in Exceptions }
  \cup
  { [exists |-> TRUE, uniform |-> FALSE, attempted |-> TRUE, created |-> TRUE,
     raised |-> <<e>>] : e \in Exceptions }
  \cup
  { [exists |-> TRUE, uniform |-> TRUE, attempted |-> TRUE, created |-> TRUE,
     raised |-> None] }

\* _ensure_gcs_bucket_exists: the outcomes of one call on a store where the
\* bucket exists or not; attempted: create_bucket was called; created: it
\* returned; raised is None when the call returns
ensure_gcs_bucket_exists(exists, uniform) ==
  \* get_bucket raises something other than NotFound
  { [exists |-> exists, uniform |-> uniform, attempted |-> FALSE, created |-> FALSE,
     raised |-> <<e>>] : e \in Exceptions }
  \cup
  (IF exists
   THEN { [exists |-> TRUE, uniform |-> uniform, attempted |-> FALSE, created |-> FALSE,
           raised |-> None] }
   ELSE \* NotFound: create_bucket, then set uniform access and patch
        { [exists |-> FALSE, uniform |-> FALSE, attempted |-> TRUE, created |-> FALSE,
           raised |-> <<e>>] : e \in Exceptions }
        \cup
        { [exists |-> TRUE, uniform |-> FALSE, attempted |-> TRUE, created |-> TRUE,
           raised |-> <<e>>] : e \in Exceptions }
        \cup
        { [exists |-> TRUE, uniform |-> TRUE, attempted |-> TRUE, created |-> TRUE,
           raised |-> None] })

WorkerEnsureBucket ==
  /\ wpc = "ensure_bucket"
  /\ \E o \in ensure_gcs_bucket_exists(bucket_exists, bucket_uniform) :
       /\ bucket_exists' = o.exists
       /\ bucket_uniform' = o.uniform
       /\ w_trace' = Append(w_trace, Did("ensure_bucket", o.raised))
       /\ IF o.raised # None
          THEN SetupFails(<<"Failed proceeding due to GCS bucket setup error: ">> \o o.raised)
          ELSE /\ wpc' = "upload"
               /\ UNCHANGED bgVars
  /\ UNCHANGED <<call, rag_corpus, corpus_exists, toolVars, otherVars>>

\* upload_directory_to_gcs returns the URI prefix, or raises FileNotFoundError
\* (the root is no directory) or another exception (the storage client)
WorkerUpload ==
  /\ wpc = "upload"
  /\ \/ /\ wpc' = "corpus"
        /\ w_trace' = Append(w_trace, Did("upload", None))
        /\ UNCHANGED bgVars
     \/ /\ SetupFails(<<"Local directory not found: ", "target_dir">>)
        /\ w_trace' = Append(w_trace,
                             Did("upload", <<"Local directory not found: ", "target_dir">>))
     \/ \E e \in Exceptions :
          /\ SetupFails(<<"Error uploading to GCS: ", e>>)
          /\ w_trace' = Append(w_trace, Did("upload", <<e>>))
  /\ UNCHANGED <<call, rag_corpus, envVars, toolVars, otherVars>>

\* list_corpora, then create_corpus when no corpus has the display name
WorkerCorpus ==
  /\ wpc = "corpus"
  /\ \/ /\ rag_corpus' = CorpusResourceName
        /\ corpus_exists' = TRUE
        /\ wpc' = "import"
        /\ w_trace' = Append(w_trace, Did("corpus", None))
        /\ UNCHANGED bgVars
     \/ \E e \in Exceptions :
          /\ SetupFails(<<"Error finding or creating RAG Corpus: ", e>>)
          /\ w_trace' = Append(w_trace, Did("corpus", <<e>>))
          /\ UNCHANGED <<rag_corpus, corpus_exists>>
  /\ UNCHANGED <<call, bucket_exists, bucket_uniform, toolVars, otherVars>>

\* rag.import_files is accepted (setup returns rag_corpus.name and the worker
\* moves on to model initialization) or raises
WorkerImport ==
  /\ wpc = "import"
  /\ \/ /\ Assign(AfterSetup(background_state, rag_corpus))
        /\ wpc' = IF Truthy(rag_corpus) THEN "model_init" ELSE "done"
        /\ w_trace' = w_trace \o
             (IF Truthy(rag_corpus)
              THEN <<Did("import", None), Did("set_status_running_model_init", None)>>
              ELSE <<Did("import", None)>>)
     \/ \E e \in Exceptions :
          /\ SetupFails(<<"Error importing files into RAG Corpus ">> \o rag_corpus \o <<": ", e>>)
          /\ w_trace' = Append(w_trace, Did("import", <<e>>))
  /\ UNCHANGED <<call, rag_corpus, envVars, toolVars, otherVars>>

\* initialize_internal_rag_model: the model bound to the corpus, or None when
\* building it raised
initialize_internal_rag_model(rag_corpus_name, rag_model_id) ==
  { <<"GenerativeModel", rag_model_id>> \o rag_corpus_name, None }

FinishModelInit_no_fail(self, internal_model) ==
  IF Truthy(internal_model)
  THEN set_status_complete(self, internal_model)
  ELSE self

\* _run_rag_background_setup, phase 2
FinishModelInit(self, internal_model) ==
  IF Truthy(internal_model)
  THEN set_status_complete(self, internal_model)
  ELSE set_status_failed(self, <<"Failed to initialize internal RAG model.">>)

WorkerModelInit ==
  /\ wpc = "model_init"
  /\ \E internal_model \in initialize_internal_rag_model(rag_corpus, RAG_MODEL_ID) :
       /\ Assign(FinishModelInit(background_state, internal_model))
       /\ w_trace' = Append(w_trace,
            Did("model_init",
                IF Truthy(internal_model) THEN None
                ELSE <<"Failed to initialize internal RAG model.">>))
  /\ wpc' = "done"
  /\ UNCHANGED <<call, rag_corpus, envVars, toolVars, otherVars>>

\* the same handler reached by an exception raised after the last transition
WorkerUnexpected_after_done ==
  /\ Len(w_trace) < 9
  /\ \E e \in Exceptions :
       /\ Assign(set_status_failed(background_state,
             <<"Unexpected error in background RAG setup thread: ", e>>))
       /\ w_trace' = Append(w_trace, Did("unexpected", <<e>>))
  /\ wpc' = "done"
  /\ UNCHANGED <<call, rag_corpus, envVars, toolVars, otherVars>>

\* the outermost except Exception of the worker: anything raised inside the
\* try that no inner handler caught
WorkerUnexpected ==
  /\ wpc # "done"
  /\ \E e \in Exceptions :
       /\ Assign(set_status_failed(background_state,
             <<"Unexpected error in background RAG setup thread: ", e>>))
       /\ w_trace' = Append(w_trace, Did("unexpected", <<e>>))
  /\ wpc' = "done"
  /\ UNCHANGED <<call, rag_corpus, envVars, toolVars, otherVars>>

Worker ==
  \/ WorkerValidate
  \/ WorkerSdkInit
  \/ WorkerEnsureBucket
  \/ WorkerUpload
  \/ WorkerCorpus
  \/ WorkerImport
  \/ WorkerModelInit
  \/ WorkerUnexpected

\* ------------------------------------------------------------- query tool
LoadingStatuses == {"pending", "running_setup", "running_model_init"}
UnknownError == <<"Unknown error during RAG setup.">>

LoadingResult_generic(status) ==
  [status |-> "loading",
   message |-> <<"RAG setup is still in progress. Please try again shortly.">>]

LoadingResult(status) ==
  [status |-> "loading",
   message |-> <<"RAG setup is still in progress (Status: ", status,
                 "). Please try again shortly.">>]

FailedResult_generic(error_message) ==
  [status |-> "error",
   error_message |-> <<"RAG setup failed: ">> \o UnknownError]

\* the failed branch: error_message or the fallback, behind the fixed prefix
FailedResult(error_message) ==
  [status |-> "error",
   error_message |-> <<"RAG setup failed: ">> \o
       (IF Truthy(error_message) THEN error_message ELSE UnknownError)]

ModelUnavailableResult ==
  [status |-> "error",
   error_message |-> <<"Internal error: RAG setup complete but model unavailable.">>]

UnexpectedStatusResult(status) ==
  [status |-> "error",
   error_message |-> <<"Unexpected internal state: ", status>>]

\* what internal_model.generate_content(query) may do: return a response
\* with text, with empty text, no response, or raise
Texts == {<<"X">>, <<"Y">>}
GenerateOutcomes ==
  { [kind |-> "response", text |-> x] : x \in Texts \cup {EmptyStr, None} }
  \cup { [kind |-> "raise", text |-> <<e>>] : e \in Exceptions }

QueryResult_propagates(o) ==
  IF o.kind = "raise"
  THEN [status |-> "raised", exception |-> o.text]
  ELSE IF Truthy(o.text)
       THEN [status |-> "success", response |-> o.text]
       ELSE [status |-> "no_answer",
             message |-> <<"The RAG model could not find relevant information for the query.">>]

\* the try/except around generate_content
QueryResult(o) ==
  IF o.kind = "raise"
  THEN [status |-> "error",
        error_message |-> <<"An error occurred while querying the RAG model: ">> \o o.text]
  ELSE IF Truthy(o.text)
       THEN [status |-> "success", response |-> o.text]
       ELSE [status |-> "no_answer",
             message |-> <<"The RAG model could not find relevant information for the query.">>]

\* a new invocation: status = background_state.setup_status
ToolStart(t) ==
  /\ tpc[t] = "idle"
  /\ t_status' = [t_status EXCEPT ![t] = background_state.setup_status]
  /\ t_model' = [t_model EXCEPT ![t] = None]
  /\ t_outcome' = [t_outcome EXCEPT ![t] = NoOutcome]
  /\ result' = [result EXCEPT ![t] = NoResult]
  /\ generate_calls' = [generate_calls EXCEPT ![t] = 0]
  /\ tpc' = [tpc EXCEPT ![t] = "read_model"]
  /\ UNCHANGED <<bgVars, call, workerVars, envVars, otherVars>>

\* the model read while the worker holds the lock for its whole run
ToolReadModel_waits(t) ==
  /\ tpc[t] = "read_model"
  /\ wpc = "done"
  /\ LET status == t_status[t]
         internal_model == background_state.internal_rag_model IN
     /\ t_model' = [t_model EXCEPT ![t] = internal_model]
     /\ IF status \in LoadingStatuses
        THEN /\ result' = [result EXCEPT ![t] = LoadingResult(status)]
             /\ tpc' = [tpc EXCEPT ![t] = "done"]
             /\ UNCHANGED generate_calls
        ELSE IF status = "failed"
        THEN /\ tpc' = [tpc EXCEPT ![t] = "read_error"]
             /\ UNCHANGED <<result, generate_calls>>
        ELSE IF status = "complete"
        THEN IF ~Truthy(internal_model)
             THEN /\ result' = [result EXCEPT ![t] = ModelUnavailableResult]
                  /\ tpc' = [tpc EXCEPT ![t] = "done"]
                  /\ UNCHANGED generate_calls
             ELSE /\ generate_calls' = [generate_calls EXCEPT ![t] = @ + 1]
                  /\ tpc' = [tpc EXCEPT ![t] = "generate"]
                  /\ UNCHANGED result
        ELSE /\ result' = [result EXCEPT ![t] = UnexpectedStatusResult(status)]
             /\ tpc' = [tpc EXCEPT ![t] = "done"]
             /\ UNCHANGED generate_calls
  /\ UNCHANGED <<bgVars, call, workerVars, envVars, otherVars, t_status, t_outcome>>

\* internal_model = background_state.internal_rag_model, then the branch on
\* the status read before
ToolReadModel(t) ==
  /\ tpc[t] = "read_model"
  /\ LET status == t_status[t]
         internal_model == background_state.internal_rag_model IN
     /\ t_model' = [t_model EXCEPT ![t] = internal_model]
     /\ IF status \in LoadingStatuses
        THEN /\ result' = [result EXCEPT ![t] = LoadingResult(status)]
             /\ tpc' = [tpc EXCEPT ![t] = "done"]
             /\ UNCHANGED generate_calls
        ELSE IF status = "failed"
        THEN /\ tpc' = [tpc EXCEPT ![t] = "read_error"]
             /\ UNCHANGED <<result, generate_calls>>
        ELSE IF status = "complete"
        THEN IF ~Truthy(internal_model)
             THEN /\ result' = [result EXCEPT ![t] = ModelUnavailableResult]
                  /\ tpc' = [tpc EXCEPT ![t] = "done"]
                  /\ UNCHANGED generate_calls
             ELSE /\ generate_calls' = [generate_calls EXCEPT ![t] = @ + 1]
                  /\ tpc' = [tpc EXCEPT ![t] = "generate"]
                  /\ UNCHANGED result
        ELSE /\ result' = [result EXCEPT ![t] = UnexpectedStatusResult(status)]
             /\ tpc' = [tpc EXCEPT ![t] = "done"]
             /\ UNCHANGED generate_calls
  /\ UNCHANGED <<bgVars, call, workerVars, envVars, otherVars, t_status, t_outcome>>

\* error_msg = background_state.error_message or "Unknown error ..."
ToolReadError(t) ==
  /\ tpc[t] = "read_error"
  /\ result' = [result EXCEPT ![t] = FailedResult(background_state.error_message)]
  /\ tpc' = [tpc EXCEPT ![t] = "done"]
  /\ UNCHANGED <<bgVars, call, workerVars, envVars, otherVars, t_status, t_model,
                 t_outcome, generate_calls>>

ToolGenerate_marks_failed(t) ==
  /\ tpc[t] = "generate"
  /\ \E o \in GenerateOutcomes :
       /\ t_outcome' = [t_outcome EXCEPT ![t] = o]
       /\ result' = [result EXCEPT ![t] = QueryResult(o)]
       /\ Assign(IF o.kind = "raise"
                 THEN set_status_failed(background_state, o.text)
                 ELSE background_state)
  /\ tpc' = [tpc EXCEPT ![t] = "done"]
  /\ UNCHANGED <<call, workerVars, envVars, otherVars, t_status, t_model, generate_calls>>

\* generate_content returns or raises
ToolGenerate(t) ==
  /\ tpc[t] = "generate"
  /\ \E o \in GenerateOutcomes :
       /\ t_outcome' = [t_outcome EXCEPT ![t] = o]
       /\ result' = [result EXCEPT ![t] = QueryResult(o)]
  /\ tpc' = [tpc EXCEPT ![t] = "done"]
  /\ UNCHANGED <<bgVars, call, workerVars, envVars, otherVars, t_status, t_model, generate_calls>>

\* the invocation returns result to the host; the context is free for the
\* next invocation, which starts from fresh locals
ToolReturn(t) ==
  /\ tpc[t] = "done"
  /\ tpc' = [tpc EXCEPT ![t] = "idle"]
  /\ UNCHANGED <<bgVars, call, workerVars, envVars, otherVars,
                 t_status, t_model, t_outcome, result, generate_calls>>

Tool(t) ==
  \/ ToolStart(t)
  \/ ToolReadModel(t)
  \/ ToolReadError(t)
  \/ ToolGenerate(t)
  \/ ToolReturn(t)

\* --------------------------------------------------------- specifications
\* The program: one worker per state object, any number of tool invocations.
Next ==
  \/ Worker
  \/ \E t \in Tools : Tool(t)

Spec == Init /\ [][Next]_vars

\* The state object driven by arbitrary callers of its transition methods.
\* The worker thread is scheduled fairly and every remote call it makes
\* returns: a worker step that is possible is eventually taken.  Nothing is
\* assumed about the tool invocations.
SpecFair == Init /\ [][Next]_vars /\ WF_vars(Worker)

\* the steps of an invocation that make no remote call
ToolLocalStep(t) ==
  \/ ToolReadModel(t)
  \/ ToolReadError(t)
  \/ ToolReturn(t)

\* The threads that run tool invocations are scheduled fairly: a step of an
\* invocation that needs no remote call is eventually taken.  Nothing is
\* assumed about the worker, which may stay in a remote call forever.
SpecHang == Init /\ [][Next]_vars /\ \A t \in Tools : WF_vars(ToolLocalStep(t))

NextApi ==
  \/ CallRunningSetup
  \/ CallRunningModelInit
  \/ CallComplete
  \/ CallFailed

SpecApi == Init /\ [][NextApi]_vars

\* ------------------------------------------------ successive bucket ensures
\* _ensure_gcs_bucket_exists called again on the store the previous call left
EnsureCall ==
  /\ Len(ensure_log) < MaxEnsureCalls
  /\ \E o \in ensure_gcs_bucket_exists(bucket_exists, bucket_uniform) :
       /\ bucket_exists' = o.exists
       /\ bucket_uniform' = o.uniform
       /\ ensure_log' = Append(ensure_log,
                               [found |-> bucket_exists, uniform |-> bucket_uniform,
                                out |-> o])
  /\ UNCHANGED <<bgVars, call, workerVars, corpus_exists, toolVars, startVars, walkVars, syncVars>>

NextEnsure == EnsureCall

SpecEnsure == Init /\ [][NextEnsure]_vars

\* ------------------------------------------------------------ upload walk
\* upload_directory_to_gcs.  File names, directory names, paths handed to
\* fnmatch and ignore patterns are sequences of characters; a path in the
\* tree is the sequence of the names from the root down, the root is << >>.
a_py == <<"a", ".", "p", "y">>
b_log == <<"b", ".", "l", "o", "g">>
x_py == <<"x", ".", "p", "y">>
y_py == <<"y", ".", "p", "y">>
z_py == <<"z", ".", "p", "y">>
v_py == <<"v", ".", "p", "y">>
m_js == <<"m", ".", "j", "s">>
cache == <<"c", "a", "c", "h", "e">>
lib == <<"l", "i", "b">>
subdir == <<"s", "u", "b">>
pkg == <<"p", "k", "g">>
venv == <<"v", "e", "n", "v">>
indexignore == <<".", "i", "n", "d", "e", "x", "i", "g", "n", "o", "r", "e">>

standard_ignores ==
  << <<".", "g", "i", "t", "/">>,
     <<".", "v", "e", "n", "v", "/">>,
     <<"v", "e", "n", "v", "/">>,
     <<"_", "_", "p", "y", "c", "a", "c", "h", "e", "_", "_", "/">>,
     <<"n", "o", "d", "e", "_", "m", "o", "d", "u", "l", "e", "s", "/">>,
     <<".", "D", "S", "_", "S", "t", "o", "r", "e">> >>

\* the characters str.strip() removes
Whitespace == {" ", "\t", "\n", "\r"}

RECURSIVE lstrip(_)
lstrip(line) ==
  IF line # << >> /\ Head(line) \in Whitespace THEN lstrip(Tail(line)) ELSE line

RECURSIVE rstrip(_)
rstrip(line) ==
  IF line # << >> /\ line[Len(line)] \in Whitespace
  THEN rstrip(SubSeq(line, 1, Len(line) - 1))
  ELSE line

strip(line) == rstrip(lstrip(line))

\* the loop over the lines of the ignore file: blank lines and lines that
\* start with # after stripping are dropped
RECURSIVE kept_lines(_)
kept_lines(lines) ==
  IF lines = << >> THEN << >>
  ELSE LET line == strip(Head(lines))
       IN (IF line # << >> /\ Head(line) # "#" THEN <<line>> ELSE << >>)
            \o kept_lines(Tail(lines))

\* load_raw_ignore_patterns: no patterns when the file does not exist or
\* cannot be opened
load_raw_ignore_patterns(file, readable) ==
  IF file.exists /\ readable THEN kept_lines(file.lines) ELSE << >>

\* fnmatch.fnmatch on a POSIX system for patterns without character classes:
\* * matches any run of characters (a / included), ? one character, any
\* other character itself; the whole name must match
RECURSIVE fnmatch(_, _)
fnmatch(name, pat) ==
  IF pat = << >> THEN name = << >>
  ELSE IF Head(pat) = "*"
       THEN fnmatch(name, Tail(pat)) \/ (name # << >> /\ fnmatch(Tail(name), pat))
  ELSE IF Head(pat) = "?"
       THEN name # << >> /\ fnmatch(Tail(name), Tail(pat))
  ELSE name # << >> /\ Head(name) = Head(pat) /\ fnmatch(Tail(name), Tail(pat))

\* os.path.relpath(.., local_directory_path) as a POSIX path
RECURSIVE RelPath(_)
RelPath(path) ==
  IF Len(path) = 1 THEN path[1]
  ELSE path[1] \o <<"/">> \o RelPath(Tail(path))

\* is_ignored of the directory loop
DirIgnored(path, patterns) ==
  \E i \in DOMAIN patterns :
    \/ fnmatch(RelPath(path) \o <<"/">>, patterns[i])
    \/ fnmatch(path[Len(path)], patterns[i])

\* is_ignored of the file loop
FileIgnored(path, patterns) ==
  \E i \in DOMAIN patterns :
    \/ fnmatch(RelPath(path), patterns[i])
    \/ fnmatch(path[Len(path)], patterns[i])

\* The local directories the walk is run on.
\*   scenario:   a.py, b.log, cache/x.py and .indexignore with *.log and cache/
\*   plain:      the same tree without .indexignore
\*   deep:       a.py, lib/z.py, lib/sub/y.py, pkg/venv/m.js, venv/v.py and
\*               .indexignore with a comment, a blank line and " lib/ "
\*   deep_plain: the same tree without .indexignore
\*   nodir:      the path is not a directory
WalkCases == {"scenario", "plain", "deep", "deep_plain", "nodir"}

IsDir(case) == case # "nodir"

Line(chars) == chars \o <<"\n">>

IgnoreFile(case) ==
  CASE case = "scenario" ->
         [exists |-> TRUE,
          lines |-> << Line(<<"*", ".", "l", "o", "g">>),
                       Line(<<"c", "a", "c", "h", "e", "/">>) >>]
    [] case = "deep" ->
         [exists |-> TRUE,
          lines |-> << Line(<<"#", " ", "b", "u", "i", "l", "d">>),
                       Line(<< >>),
                       Line(<<" ", "l", "i", "b", "/", " ">>) >>]
    [] OTHER -> [exists |-> FALSE, lines |-> << >>]

IgnoreFileName(case) == IF IgnoreFile(case).exists THEN <<indexignore>> ELSE << >>

\* what os.walk lists for each directory of the tree, in listing order
Listing(case) ==
  CASE case \in {"scenario", "plain"} ->
         (<< >> :> [dirs |-> <<cache>>,
                    files |-> <<a_py, b_log>> \o IgnoreFileName(case)])
         @@ (<<cache>> :> [dirs |-> << >>, files |-> <<x_py>>])
    [] case \in {"deep", "deep_plain"} ->
         (<< >> :> [dirs |-> <<lib, pkg, venv>>,
                    files |-> <<a_py>> \o IgnoreFileName(case)])
         @@ (<<lib>> :> [dirs |-> <<subdir>>, files |-> <<z_py>>])
         @@ (<<lib, subdir>> :> [dirs |-> << >>, files |-> <<y_py>>])
         @@ (<<pkg>> :> [dirs |-> <<venv>>, files |-> << >>])
         @@ (<<pkg, venv>> :> [dirs |-> << >>, files |-> <<m_js>>])
         @@ (<<venv>> :> [dirs |-> << >>, files |-> <<v_py>>])
    [] OTHER -> (<< >> :> [dirs |-> << >>, files |-> << >>])

AllDirs(case) == (DOMAIN Listing(case)) \ {<< >>}

AllFiles(case) ==
  UNION { { d \o <<Listing(case)[d].files[i]>> : i \in DOMAIN Listing(case)[d].files }
          : d \in DOMAIN Listing(case) }

\* q lies strictly beneath directory p
Beneath(q, p) == Len(q) > Len(p) /\ SubSeq(q, 1, Len(p)) = p

\* f"gs://{bucket_name}/{gcs_prefix}" with gcs_prefix="code_upload/"
GcsUri(bucket_name) == <<"gs://">> \o bucket_name \o <<"/", "code_upload/">>

\* lines 60-78: the isdir check, the storage client, the ignore patterns,
\* the counters; os.walk starts at the root
WalkBegin ==
  /\ walk_pc = "idle"
  /\ \E c \in WalkCases, readable \in BOOLEAN,
        client \in {None} \cup { <<e>> : e \in Exceptions } :
       /\ walk_case' = c
       /\ IF ~IsDir(c)
          THEN /\ walk_pc' = "done"
               /\ walk_result' = [kind |-> "raised",
                                  value |-> <<"Local directory not found: ">>]
               /\ UNCHANGED <<ignore_patterns, walk_stack>>
          ELSE IF client # None
          THEN /\ walk_pc' = "done"
               /\ walk_result' = [kind |-> "raised", value |-> client]
               /\ UNCHANGED <<ignore_patterns, walk_stack>>
          ELSE /\ walk_pc' = "walk"
               /\ ignore_patterns' =
                    load_raw_ignore_patterns(IgnoreFile(c), readable) \o standard_ignores
               /\ walk_stack' = << << >> >>
               /\ UNCHANGED walk_result
  /\ UNCHANGED <<walk_root, walk_files, uploaded_files, skipped_files, ignored_files,
                 ignored_dirs_count, visited, ignored_dir_log, upload_log>>
  /\ UNCHANGED <<bgVars, call, workerVars, envVars, toolVars, startVars, ensureVars, syncVars>>

\* the directory loop with every listed directory kept for descent
WalkDirs_no_prune ==
  /\ walk_pc = "walk"
  /\ walk_files = << >>
  /\ walk_stack # << >>
  /\ LET root == Head(walk_stack)
         entry == Listing(walk_case)[root]
         original_dirs == [i \in DOMAIN entry.dirs |-> root \o <<entry.dirs[i]>>]
         is_ignored(p) == DirIgnored(p, ignore_patterns)
         ignored == SelectSeq(original_dirs, is_ignored)
     IN /\ walk_root' = root
        /\ visited' = visited \cup {root}
        /\ ignored_dirs_count' = ignored_dirs_count + Len(ignored)
        /\ ignored_dir_log' = ignored_dir_log \o ignored
        /\ walk_stack' = original_dirs \o Tail(walk_stack)
        /\ walk_files' = entry.files
  /\ UNCHANGED <<walk_case, walk_pc, ignore_patterns, uploaded_files, skipped_files,
                 ignored_files, upload_log, walk_result>>
  /\ UNCHANGED <<bgVars, call, workerVars, envVars, toolVars, startVars, ensureVars, syncVars>>

\* lines 79-95: os.walk yields the next directory top-down; the directories
\* it lists are matched against the patterns, an ignored one is counted and
\* dropped from dirs, the others are descended into after this directory's
\* files, before the directories still pending
WalkDirs ==
  /\ walk_pc = "walk"
  /\ walk_files = << >>
  /\ walk_stack # << >>
  /\ LET root == Head(walk_stack)
         entry == Listing(walk_case)[root]
         original_dirs == [i \in DOMAIN entry.dirs |-> root \o <<entry.dirs[i]>>]
         is_ignored(p) == DirIgnored(p, ignore_patterns)
         not_ignored(p) == ~DirIgnored(p, ignore_patterns)
         ignored == SelectSeq(original_dirs, is_ignored)
         dirs == SelectSeq(original_dirs, not_ignored)
     IN /\ walk_root' = root
        /\ visited' = visited \cup {root}
        /\ ignored_dirs_count' = ignored_dirs_count + Len(ignored)
        /\ ignored_dir_log' = ignored_dir_log \o ignored
        /\ walk_stack' = dirs \o Tail(walk_stack)
        /\ walk_files' = entry.files
  /\ UNCHANGED <<walk_case, walk_pc, ignore_patterns, uploaded_files, skipped_files,
                 ignored_files, upload_log, walk_result>>
  /\ UNCHANGED <<bgVars, call, workerVars, envVars, toolVars, startVars, ensureVars, syncVars>>

\* the file loop without the continue after an ignored file
WalkFile_no_continue ==
  /\ walk_pc = "walk"
  /\ walk_files # << >>
  /\ LET path == walk_root \o <<Head(walk_files)>>
     IN /\ visited' = visited \cup {path}
        /\ walk_files' = Tail(walk_files)
        /\ ignored_files' = ignored_files
                            + (IF FileIgnored(path, ignore_patterns) THEN 1 ELSE 0)
        /\ \E e \in {None} \cup { <<x>> : x \in Exceptions } :
             /\ upload_log' = Append(upload_log, [path |-> path, raised |-> e])
             /\ IF e = None
                THEN /\ uploaded_files' = uploaded_files + 1
                     /\ UNCHANGED skipped_files
                ELSE /\ skipped_files' = skipped_files + 1
                     /\ UNCHANGED uploaded_files
  /\ UNCHANGED <<walk_case, walk_pc, ignore_patterns, walk_stack, walk_root,
                 ignored_dirs_count, ignored_dir_log, walk_result>>
  /\ UNCHANGED <<bgVars, call, workerVars, envVars, toolVars, startVars, ensureVars, syncVars>>

\* the file loop without the try/except around the upload
WalkFile_propagates ==
  /\ walk_pc = "walk"
  /\ walk_files # << >>
  /\ LET path == walk_root \o <<Head(walk_files)>>
     IN /\ visited' = visited \cup {path}
        /\ walk_files' = Tail(walk_files)
        /\ IF FileIgnored(path, ignore_patterns)
           THEN /\ ignored_files' = ignored_files + 1
                /\ UNCHANGED <<uploaded_files, skipped_files, upload_log, walk_pc,
                               walk_result>>
           ELSE /\ \E e \in {None} \cup { <<x>> : x \in Exceptions } :
                     /\ upload_log' = Append(upload_log, [path |-> path, raised |-> e])
                     /\ IF e = None
                        THEN /\ uploaded_files' = uploaded_files + 1
                             /\ UNCHANGED <<skipped_files, walk_pc, walk_result>>
                        ELSE /\ walk_pc' = "done"
                             /\ walk_result' = [kind |-> "raised", value |-> e]
                             /\ UNCHANGED <<uploaded_files, skipped_files>>
                /\ UNCHANGED ignored_files
  /\ UNCHANGED <<walk_case, ignore_patterns, walk_stack, walk_root, ignored_dirs_count,
                 ignored_dir_log>>
  /\ UNCHANGED <<bgVars, call, workerVars, envVars, toolVars, startVars, ensureVars, syncVars>>

\* lines 96-122: the next file of the directory is matched against the
\* patterns; an ignored file is counted, any other is uploaded, and an
\* upload that raises is counted as skipped
WalkFile ==
  /\ walk_pc = "walk"
  /\ walk_files # << >>
  /\ LET path == walk_root \o <<Head(walk_files)>>
     IN /\ visited' = visited \cup {path}
        /\ walk_files' = Tail(walk_files)
        /\ IF FileIgnored(path, ignore_patterns)
           THEN /\ ignored_files' = ignored_files + 1
                /\ UNCHANGED <<uploaded_files, skipped_files, upload_log>>
           ELSE /\ \E e \in {None} \cup { <<x>> : x \in Exceptions } :
                     /\ upload_log' = Append(upload_log, [path |-> path, raised |-> e])
                     /\ IF e = None
                        THEN /\ uploaded_files' = uploaded_files + 1
                             /\ UNCHANGED skipped_files
                        ELSE /\ skipped_files' = skipped_files + 1
                             /\ UNCHANGED uploaded_files
                /\ UNCHANGED ignored_files
  /\ UNCHANGED <<walk_case, walk_pc, ignore_patterns, walk_stack, walk_root,
                 ignored_dirs_count, ignored_dir_log, walk_result>>
  /\ UNCHANGED <<bgVars, call, workerVars, envVars, toolVars, startVars, ensureVars, syncVars>>

\* lines 123-128: os.walk is exhausted; the counters are logged and the
\* URI prefix is returned
WalkEnd ==
  /\ walk_pc = "walk"
  /\ walk_files = << >>
  /\ walk_stack = << >>
  /\ walk_pc' = "done"
  /\ \E b \in BucketNames : walk_result' = [kind |-> "uri", value |-> GcsUri(b)]
  /\ UNCHANGED <<walk_case, ignore_patterns, walk_stack, walk_root, walk_files,
                 uploaded_files, skipped_files, ignored_files, ignored_dirs_count,
                 visited, ignored_dir_log, upload_log>>
  /\ UNCHANGED <<bgVars, call, workerVars, envVars, toolVars, startVars, ensureVars, syncVars>>

NextWalk ==
  \/ WalkBegin
  \/ WalkDirs
  \/ WalkFile
  \/ WalkEnd

SpecWalk == Init /\ [][NextWalk]_vars

\* ------------------------------------------- worker with the upload walked
\* step 2 of setup_rag_for_directory is the call of upload_directory_to_gcs:
\* the walk runs while the worker is at the upload step
WorkerWalk ==
  /\ wpc = "upload"
  /\ NextWalk

\* the upload step with skipped files treated as a failure of the step
WorkerUploadReturn_strict ==
  /\ wpc = "upload"
  /\ walk_pc = "done"
  /\ IF walk_result.kind = "uri" /\ skipped_files = 0
     THEN /\ wpc' = "corpus"
          /\ w_trace' = Append(w_trace, Did("upload", None))
          /\ UNCHANGED bgVars
     ELSE /\ SetupFails(<<"Error uploading to GCS: ">> \o walk_result.value)
          /\ w_trace' = Append(w_trace, Did("upload", walk_result.value))
  /\ UNCHANGED <<call, rag_corpus, envVars, toolVars, otherVars>>

\* upload_directory_to_gcs has returned or raised: lines 199-214 of
\* setup_rag_for_directory; FileNotFoundError is raised for a root that is
\* no directory, and its text is the message
WorkerUploadReturn ==
  /\ wpc = "upload"
  /\ walk_pc = "done"
  /\ IF walk_result.kind = "uri"
     THEN /\ wpc' = "corpus"
          /\ w_trace' = Append(w_trace, Did("upload", None))
          /\ UNCHANGED bgVars
     ELSE /\ SetupFails(IF IsDir(walk_case)
                        THEN <<"Error uploading to GCS: ">> \o walk_result.value
                        ELSE walk_result.value)
          /\ w_trace' = Append(w_trace, Did("upload", walk_result.value))
  /\ UNCHANGED <<call, rag_corpus, envVars, toolVars, otherVars>>

NextPipeline ==
  \/ WorkerValidate
  \/ WorkerSdkInit
  \/ WorkerEnsureBucket
  \/ WorkerWalk
  \/ WorkerUploadReturn
  \/ WorkerCorpus
  \/ WorkerImport
  \/ WorkerModelInit
  \/ WorkerUnexpected

SpecPipeline == Init /\ [][NextPipeline]_vars

\* ------------------------------------------------- synchronous setup flow
\* main.py: the setup utility.  The values the RagState fields may hold when
\* run_rag_setup_and_save_state is called.
SyncProjectIds == {EmptyStr} \cup ProjectIds
SyncBucketNames == {None} \cup BucketNames
SyncDirectories == {None, <<"target_dir">>}

\* RagState.is_setup_complete
is_setup_complete(state) ==
  /\ Truthy(state.target_directory)
  /\ Truthy(state.gcs_bucket_name)
  /\ Truthy(state.project_id)

\* the parameters of setup_rag_for_directory, none of which has a default
setup_rag_for_directory_params ==
  <<"local_directory_path", "gcs_bucket_name", "background_state">>

\* the positional arguments of the call in run_rag_setup_and_save_state
SyncCallArgs(state) == <<state.target_directory, state.gcs_bucket_name>>

\* Python binds positional arguments to parameters without defaults: the
\* call raises TypeError unless there is one argument per parameter
CallRaisesTypeError(params, args) == Len(args) # Len(params)

MissingArgument ==
  <<"TypeError", "setup_rag_for_directory() missing 1 required positional argument">>

\* what setup_rag_for_directory may do once its arguments are bound: return
\* a corpus name, return None, or raise
SetupCallOutcomes ==
  { [corpus_name |-> CorpusResourceName, raised |-> None],
    [corpus_name |-> None, raised |-> None] }
  \cup { [corpus_name |-> None, raised |-> <<e>>] : e \in Exceptions }

\* the JSON record run_rag_setup_and_save_state writes
StateData(state) == <<state>>

\* get_user_inputs and the environment: the fields of global_rag_state
SyncGather ==
  /\ sync_pc = "idle"
  /\ \E p \in SyncProjectIds, b \in SyncBucketNames, d \in SyncDirectories :
       global_rag_state' = [global_rag_state EXCEPT !.project_id = p,
                                                    !.gcs_bucket_name = b,
                                                    !.target_directory = d]
  /\ sync_pc' = "gathered"
  /\ UNCHANGED <<sync_return, sync_raised, state_file>>
  /\ UNCHANGED <<bgVars, call, workerVars, envVars, toolVars, startVars, ensureVars, walkVars>>

\* run_rag_setup_and_save_state: the guard, the call of
\* setup_rag_for_directory inside the try, the state file, the handlers
run_rag_setup_and_save_state ==
  /\ sync_pc = "gathered"
  /\ sync_pc' = "done"
  /\ IF ~is_setup_complete(global_rag_state)
     THEN /\ sync_return' = "False"
          /\ UNCHANGED <<global_rag_state, sync_raised, state_file>>
     ELSE IF CallRaisesTypeError(setup_rag_for_directory_params,
                                 SyncCallArgs(global_rag_state))
     THEN \* caught by except Exception
          /\ sync_raised' = MissingArgument
          /\ sync_return' = "False"
          /\ UNCHANGED <<global_rag_state, state_file>>
     ELSE \E o \in SetupCallOutcomes, file_ok \in BOOLEAN :
          /\ sync_raised' = o.raised
          /\ IF o.raised = None /\ Truthy(o.corpus_name)
             THEN /\ global_rag_state' =
                       [global_rag_state EXCEPT !.rag_corpus_name = o.corpus_name]
                  /\ state_file' = IF file_ok THEN StateData(global_rag_state')
                                   ELSE state_file
                  /\ sync_return' = "True"
             ELSE /\ sync_return' = "False"
                  /\ UNCHANGED <<global_rag_state, state_file>>
  /\ UNCHANGED <<bgVars, call, workerVars, envVars, toolVars, startVars, ensureVars, walkVars>>

NextSync ==
  \/ SyncGather
  \/ run_rag_setup_and_save_state

SpecSync == Init /\ [][NextSync]_vars

\* ------------------------------------------------------- startup callback
\* before_agent_starts, run again by the host: aiplatform.init returns or
\* raises; when it returns, a new BackgroundRAGState is constructed and bound
\* to shared_background_state, and a new worker thread is started on it.
\* From then on background_state, held and the worker variables describe the
\* new object and the new thread.
before_agent_starts ==
  /\ callbacks < MaxCallbacks
  /\ callbacks' = callbacks + 1
  /\ \/ UNCHANGED <<bgVars, workerVars, states_created, threads_started>>
     \/ /\ background_state' = NewBackgroundRAGState
        /\ held' = {NewBackgroundRAGState}
        /\ states_created' = states_created + 1
        /\ threads_started' = threads_started + 1
        /\ wpc' = "validate"
        /\ rag_corpus' = None
        /\ w_trace' = << >>
  /\ UNCHANGED <<call, envVars, toolVars, auxVars>>

\* The host runs the callback any number of times while the latest worker runs.
NextStartup ==
  \/ before_agent_starts
  \/ Worker

SpecStartup == Init /\ [][NextStartup]_vars

\* ------------------------------------------------------------- properties
\* a direct call of transition method op has just been made
Called(op) == call'.n # call.n /\ call'.op = op

\* sub occurs in seq as a run of consecutive chunks
Contains(seq, sub) ==
  \E i \in 0..(Len(seq) - Len(sub)) : SubSeq(seq, i + 1, i + Len(sub)) = sub

\* C1: in every state reachable by any sequence of calls of the four
\* transition methods, internal_rag_model is non-null if and only if
\* setup_status is complete.
C1_ModelIffComplete ==
  (background_state.internal_rag_model # None)
    <=> (background_state.setup_status = "complete")

\* C2: set_status_running_model_init(c) called in status running_setup sets
\* the status to running_model_init and the corpus name to c; called in any
\* other status it leaves all four fields of the state unchanged.
C2_RunningModelInitGuard ==
  [][Called("set_status_running_model_init") =>
       IF background_state.setup_status = "running_setup"
       THEN /\ background_state'.setup_status = "running_model_init"
            /\ background_state'.rag_corpus_name = call'.arg
       ELSE background_state' = background_state]_vars

C2_Witness ==
  /\ call.op = "set_status_running_model_init"
  /\ call.pre = "pending"
  /\ background_state.setup_status = "pending"
  /\ background_state.rag_corpus_name = None

\* C3: set_status_complete(m) called in status running_model_init sets the
\* status to complete and the model handle to m; called in any other status
\* it leaves all four fields of the state unchanged.
C3_CompleteGuard ==
  [][Called("set_status_complete") =>
       IF background_state.setup_status = "running_model_init"
       THEN /\ background_state'.setup_status = "complete"
            /\ background_state'.internal_rag_model = call'.arg
       ELSE background_state' = background_state]_vars

C3_Witness ==
  /\ call.op = "set_status_complete"
  /\ call.pre = "running_setup"
  /\ background_state.setup_status = "running_setup"
  /\ background_state.internal_rag_model = None

\* C4: after set_status_failed(msg), whatever the status before, the status
\* is failed, the stored error message is msg and the model handle is null.
C4_FailedFromAnyStatus ==
  [][Called("set_status_failed") =>
       /\ background_state'.setup_status = "failed"
       /\ background_state'.error_message = call'.arg
       /\ background_state'.internal_rag_model = None]_vars

C4_Witness ==
  /\ call.op = "set_status_failed"
  /\ call.pre = "failed"
  /\ background_state.setup_status = "failed"
  /\ background_state.error_message = <<"errB">>

\* C5: once the status is complete or failed, no call of a transition method
\* moves it to pending, running_setup or running_model_init.
C5_TerminalStaysTerminal ==
  [][background_state.setup_status \in Terminal =>
       background_state'.setup_status \in Terminal]_vars

\* C6: whenever the worker has returned, by any path, the status is complete
\* or failed.
C6_WorkerEndsTerminal ==
  wpc = "done" => background_state.setup_status \in Terminal

C6_Witness ==
  /\ wpc = "done"
  /\ background_state.setup_status = "failed"
  /\ background_state.error_message = <<"Failed to initialize internal RAG model.">>

C8_FailedReportsStoredMessage ==
  \A t \in Tools :
    (tpc[t] = "done" /\ t_status[t] = "failed") =>
      /\ result[t].status = "error"
      /\ Contains(result[t].error_message,
                  IF background_state.error_message # None
                  THEN background_state.error_message
                  ELSE UnknownError)
      /\ generate_calls[t] = 0
      /\ t_outcome[t] = NoOutcome

C8_Witness ==
  \E t \in Tools, e \in Exceptions :
    /\ tpc[t] = "done"
    /\ t_status[t] = "failed"
    /\ background_state.error_message = <<"Error uploading to GCS: ", e>>
    /\ result[t].status = "error"

\* C9: an invocation that read status complete and called the model returns
\* 'success' with response X when the model returned non-empty text X,
\* 'no_answer' when it returned no or empty text, 'error' when the call
\* raised; the exception never leaves the tool.
C9_CompleteResults ==
  \A t \in Tools :
    (tpc[t] = "done" /\ t_status[t] = "complete" /\ generate_calls[t] > 0) =>
      /\ generate_calls[t] = 1
      /\ t_outcome[t] # NoOutcome
      /\ result[t].status \in {"success", "no_answer", "error"}
      /\ (t_outcome[t].kind = "raise") <=> (result[t].status = "error")
      /\ (t_outcome[t].kind = "response" /\ t_outcome[t].text \in Texts)
           <=> (result[t].status = "success")
      /\ result[t].status = "success" => result[t].response = t_outcome[t].text
      /\ (t_outcome[t].kind = "response" /\ t_outcome[t].text \in {None, EmptyStr})
           <=> (result[t].status = "no_answer")

C9_Witness ==
  \E t \in Tools :
    /\ tpc[t] = "done"
    /\ t_status[t] = "complete"
    /\ t_outcome[t].kind = "raise"
    /\ result[t].status = "error"

\* C10: no step of a tool invocation changes the status, error message,
\* corpus name or model handle of the state, in any interleaving with the
\* worker and with other invocations.
C10_ToolReadOnly ==
  [][tpc' # tpc => background_state' = background_state]_vars

C10_Witness ==
  \E t \in Tools :
    /\ tpc[t] = "done"
    /\ t_status[t] = "running_setup"
    /\ result[t].status = "loading"
    /\ background_state.setup_status = "complete"
    /\ wpc = "done"

\* the invocation has read both the status and the model handle
HasReadBoth(t) == tpc[t] \in {"read_error", "generate", "done"}

\* C11: the status and the model handle an invocation has read (and the error
\* message it reports) are a combination the state object held at one single
\* instant.
C11_NoTornRead ==
  \A t \in Tools :
    HasReadBoth(t) =>
      \E s \in held :
        /\ s.setup_status = t_status[t]
        /\ s.internal_rag_model = t_model[t]
        /\ (tpc[t] = "done" /\ t_status[t] = "failed")
             => result[t] = FailedResult(s.error_message)

\* C12: however often before_agent_starts runs, at most one worker thread is
\* started and at most one BackgroundRAGState is created.
C12_OneWorkerOneState ==
  threads_started <= 1 /\ states_created <= 1

\* C13: in a run of the single worker the status only moves along pending,
\* running_setup, running_model_init, complete, or from a non-terminal status
\* to failed; it never moves backward and never skips running_model_init.
C13_OrderedProgression ==
  [][background_state'.setup_status # background_state.setup_status =>
       <<background_state.setup_status, background_state'.setup_status>> \in
         {<<"pending", "running_setup">>,
          <<"running_setup", "running_model_init">>,
          <<"running_model_init", "complete">>}
         \cup {<<st, "failed">> : st \in NonTerminal}]_vars

C13_Witness ==
  /\ wpc = "done"
  /\ background_state.setup_status = "complete"
  /\ {s.setup_status : s \in held} =
       {"pending", "running_setup", "running_model_init", "complete"}

\* C14: while the worker runs, status running_model_init or complete implies
\* that the stored corpus name is non-null and is the corpus name the setup
\* phase returned.
C14_CorpusNameSet ==
  background_state.setup_status \in {"running_model_init", "complete"} =>
    /\ background_state.rag_corpus_name # None
    /\ background_state.rag_corpus_name = rag_corpus

C14_Witness ==
  /\ background_state.setup_status = "running_model_init"
  /\ background_state.rag_corpus_name = CorpusResourceName
  /\ wpc = "model_init"

\* C15: after any sequence of transition-method calls the stored error
\* message is non-null only in status failed, so every accepted transition to
\* running_setup, running_model_init or complete leaves it null.
C15_ErrorOnlyWhenFailed ==
  background_state.error_message # None => background_state.setup_status = "failed"

C15_Witness ==
  /\ call.op = "set_status_running_setup"
  /\ call.pre = "failed"
  /\ background_state.setup_status = "running_setup"
  /\ background_state.error_message = None

\* C20: when a step of the setup phase fails, it is the last step the worker
\* executes: the status is failed with a message that contains the cause, the
\* transition to running_model_init is not attempted and model
\* initialization is not invoked.
C20_SetupFailureStops ==
  \A i \in DOMAIN w_trace :
    (w_trace[i].step \in SetupSteps /\ w_trace[i].failed # None) =>
      /\ i = Len(w_trace)
      /\ wpc = "done"
      /\ background_state.setup_status = "failed"
      /\ Contains(background_state.error_message, w_trace[i].failed)
      /\ \A j \in DOMAIN w_trace :
           w_trace[j].step \notin {"set_status_running_model_init", "model_init"}

C20_Witness ==
  /\ wpc = "done"
  /\ Len(w_trace) = 5
  /\ w_trace[5] = Did("corpus", <<"e2">>)
  /\ background_state.setup_status = "failed"

VisitedFiles == visited \cap AllFiles(walk_case)

\* the paths of the upload attempts made so far
Attempted == { upload_log[i].path : i \in DOMAIN upload_log }

\* C16: a directory that matches an ignore pattern is never yielded by the
\* walk, is counted at most once as ignored (exactly once when the walk has
\* ended and its parent was walked), and nothing beneath it is visited,
\* uploaded or counted: every unit of the four counters is a file the file
\* loop reached or a directory it pruned, none of them beneath such a directory.
C16_PrunedNeverVisited ==
  /\ ignored_dirs_count = Len(ignored_dir_log)
  /\ uploaded_files + skipped_files + ignored_files = Cardinality(VisitedFiles)
  /\ \A d \in AllDirs(walk_case) :
       DirIgnored(d, ignore_patterns) =>
         /\ d \notin visited
         /\ Cardinality({i \in DOMAIN ignored_dir_log : ignored_dir_log[i] = d}) <= 1
         /\ \A q \in visited \cup Attempted : ~Beneath(q, d)
         /\ \A i \in DOMAIN ignored_dir_log : ~Beneath(ignored_dir_log[i], d)
         /\ (walk_pc = "done" /\ SubSeq(d, 1, Len(d) - 1) \in visited)
              => \E i \in DOMAIN ignored_dir_log : ignored_dir_log[i] = d

C16_Witness ==
  /\ walk_pc = "done"
  /\ walk_case = "deep"
  /\ ignored_dir_log = << <<lib>>, <<venv>> >>
  /\ <<pkg, venv, m_js>> \in visited

\* the patterns of the scenario's ignore file followed by the built-in ones
ScenarioPatterns ==
  << <<"*", ".", "l", "o", "g">>, <<"c", "a", "c", "h", "e", "/">> >> \o standard_ignores

\* C17: in the scenario (a.py, b.log, cache/x.py, ignore file under the root
\* with *.log and cache/), when the walk has ended and no upload raised, a.py
\* is the only file uploaded, the uploaded count is 1, b.log is the one
\* ignored file, cache/ the one ignored directory and cache/x.py was not
\* visited.
C17_ScenarioUploadsOnlyA ==
  (/\ walk_case = "scenario"
   /\ walk_pc = "done"
   /\ walk_result.kind = "uri"
   /\ ignore_patterns = ScenarioPatterns
   /\ skipped_files = 0)
  => /\ Attempted = {<<a_py>>}
     /\ uploaded_files = 1
     /\ ignored_files = 1
     /\ ignored_dirs_count = 1
     /\ ignored_dir_log = << <<cache>> >>
     /\ <<cache, x_py>> \notin visited

\* the files that are not ignored and lie in no ignored directory
Eligible ==
  { f \in AllFiles(walk_case) :
      /\ ~FileIgnored(f, ignore_patterns)
      /\ \A k \in 1..(Len(f) - 1) : ~DirIgnored(SubSeq(f, 1, k), ignore_patterns) }

Succeeded == { i \in DOMAIN upload_log : upload_log[i].raised = None }
Raised == { i \in DOMAIN upload_log : upload_log[i].raised # None }

\* the walk was started and has ended
WalkEnded == walk_pc = "done" /\ visited # {}

FirstMutation ==
  /\ background_state.setup_status = "pending"
  /\ background_state' # background_state

\* C21 as stated: the first mutation of the shared state is the transition
\* to running_setup; nothing else is written while the status is pending.
C21_FirstMutationIsRunningSetup ==
  [][FirstMutation => background_state'.setup_status = "running_setup"]_vars

\* C21 amended: the first mutation is the transition to running_setup, or,
\* when an argument check fails or an unexpected exception is raised before
\* it, set_status_failed written while the status is pending, after which the
\* worker has stopped.
C21_FirstMutationOrEarlyFailure ==
  [][FirstMutation =>
       \/ /\ background_state' = set_status_running_setup(background_state)
          /\ wpc' = "sdk_init"
       \/ /\ background_state'.setup_status = "failed"
          /\ wpc = "validate"
          /\ wpc' = "done"
          /\ w_trace'[Len(w_trace')].step \in {"validate", "unexpected"}
          /\ w_trace'[Len(w_trace')].failed # None
          /\ Contains(background_state'.error_message, w_trace'[Len(w_trace')].failed)]_vars

C21_Witness ==
  /\ wpc = "done"
  /\ Len(w_trace) = 1
  /\ w_trace[1].step = "validate"
  /\ w_trace[1].failed # None
  /\ background_state.setup_status = "failed"
  /\ {x.setup_status : x \in held} = {"pending", "failed"}

\* C22: under fair scheduling of the worker, with every remote call
\* returning, the status eventually is complete or failed, whatever the
\* tool invocations do.
C22_EventuallyTerminal ==
  <>(background_state.setup_status \in Terminal)

C22_Witness ==
  /\ background_state.setup_status = "complete"
  /\ wpc = "done"
  /\ \E t \in Tools : tpc[t] = "generate"

\* C23: while the worker is in a remote call the status is the one of that
\* phase and changes only when the worker moves; an invocation that has read
\* a loading status ends with the loading result that names it, whether or
\* not the worker ever takes another step.
C23_HangKeepsLoading ==
  /\ [](\A p \in RemoteCallPositions :
          wpc = p => background_state.setup_status = StatusAt(p))
  /\ [][wpc' = wpc => background_state' = background_state]_vars
  /\ \A t \in Tools :
       (tpc[t] = "read_model" /\ t_status[t] \in LoadingStatuses)
         ~> (tpc[t] = "done" /\ result[t] = LoadingResult(t_status[t]))

C23_Witness ==
  /\ wpc = "corpus"
  /\ background_state.setup_status = "running_setup"
  /\ \E t \in Tools :
       /\ tpc[t] = "done"
       /\ result[t] = LoadingResult("running_setup")

\* every step of the worker other than the upload step succeeded
OtherStepsSucceeded ==
  \A i \in DOMAIN w_trace : w_trace[i].step # "upload" => w_trace[i].failed = None

\* C24: when the upload walk has returned, however many uploads raised, the
\* upload step of the worker has not failed; and when the worker has ended
\* with every other step successful, the worker went on to corpus, import and
\* model initialization and the status is complete.
C24_UploadFailuresNotFatal ==
  walk_result.kind = "uri" =>
    /\ \A i \in DOMAIN w_trace :
         w_trace[i].step = "upload" => w_trace[i].failed = None
    /\ (wpc = "done" /\ OtherStepsSucceeded) =>
         /\ background_state.setup_status = "complete"
         /\ {"corpus", "import", "model_init"} \subseteq
              { w_trace[i].step : i \in DOMAIN w_trace }

C24_Witness ==
  /\ wpc = "done"
  /\ background_state.setup_status = "complete"
  /\ walk_case = "plain"
  /\ Cardinality(Eligible) = 3
  /\ skipped_files = 3
  /\ uploaded_files = 0

\* C25 as stated: in a succession of ensure calls on a bucket that did not
\* exist before the first, every call that returns without raising leaves
\* the bucket with uniform bucket-level access enabled.
C25_ReturnedMeansUniform ==
  \A i \in DOMAIN ensure_log :
    (~ensure_log[1].found /\ ensure_log[i].out.raised = None)
      => ensure_log[i].out.uniform

\* the names of the built-in directory patterns, without the trailing slash
BuiltinDirNames ==
  { SubSeq(standard_ignores[i], 1, Len(standard_ignores[i]) - 1) :
      i \in { k \in DOMAIN standard_ignores :
                standard_ignores[k][Len(standard_ignores[k])] = "/" } }

\* C26 as stated: with no ignore file, a directory whose name is a built-in
\* ignored directory name is never walked, wherever it lies in the tree, and
\* no file beneath it is reached or uploaded.
C26_BuiltinDirsPrunedAnywhere ==
  (walk_case \in WalkCases /\ ~IgnoreFile(walk_case).exists) =>
    \A d \in AllDirs(walk_case) :
      d[Len(d)] \in BuiltinDirNames =>
        /\ d \notin visited
        /\ \A q \in visited \cup Attempted : ~Beneath(q, d)

\* C27: an invocation that has read status complete has read a non-null
\* model handle, and no invocation produces the 'setup complete but model
\* unavailable' result.
C27_CompleteHasModel ==
  \A t \in Tools :
    /\ (HasReadBoth(t) /\ t_status[t] = "complete") => Truthy(t_model[t])
    /\ result[t] # ModelUnavailableResult

C27_Witness ==
  \E t \in Tools :
    /\ tpc[t] = "generate"
    /\ t_status[t] = "complete"
    /\ Truthy(t_model[t])

\* a result other than 'loading'
NonLoading(r) == r # NoResult /\ r.status # "loading"

\* the 'RAG setup failed' error result
IsSetupFailed(r) ==
  /\ r # NoResult
  /\ r.status = "error"
  /\ r.error_message[1] = "RAG setup failed: "

\* invocation t begins in this step
Begins(t) == tpc[t] = "idle" /\ tpc'[t] = "read_model"

\* C28: a non-loading result is built from a terminal status read by the
\* invocation; an invocation that begins after any invocation has read a
\* terminal status reads that same status; and an invocation that has read a
\* terminal status ends with a non-loading result, which is no 'RAG setup
\* failed' error when the status was complete.  Hence after a non-loading
\* result every later invocation returns a non-loading result, and after one
\* built from complete none returns 'RAG setup failed'.
C28_ResultsMonotone ==
  /\ [](\A t \in Tools : NonLoading(result[t]) => t_status[t] \in Terminal)
  /\ [][\A t, u \in Tools :
          (Begins(t) /\ t_status[u] \in Terminal) => t_status'[t] = t_status[u]]_vars
  /\ [](\A t \in Tools :
          (tpc[t] = "done" /\ t_status[t] \in Terminal) =>
            /\ NonLoading(result[t])
            /\ t_status[t] = "complete" => ~IsSetupFailed(result[t]))

C28_Witness ==
  \E t, u \in Tools :
    /\ t # u
    /\ tpc[u] = "idle"
    /\ result[u].status = "success"
    /\ tpc[t] = "done"
    /\ result[t].status = "no_answer"

\* the directories the walk descends into: no directory on the path is ignored
NonPrunedDirs ==
  { d \in DOMAIN Listing(walk_case) :
      \A k \in 1..Len(d) : ~DirIgnored(SubSeq(d, 1, k), ignore_patterns) }

\* the files located in those directories
FilesInNonPrunedDirs ==
  { f \in AllFiles(walk_case) : SubSeq(f, 1, Len(f) - 1) \in NonPrunedDirs }

\* the directories listed in a directory the walk has processed
ReachedDirs ==
  { d \in AllDirs(walk_case) : SubSeq(d, 1, Len(d) - 1) \in visited }

IgnoredDirs == { ignored_dir_log[i] : i \in DOMAIN ignored_dir_log }

\* C29: each file the file loop has reached has incremented exactly one of
\* the three file counters and lies in a non-pruned directory; when the walk
\* has ended the three counters add up to the number of files in non-pruned
\* directories; and a directory reached is either counted as ignored or
\* descended into, never both.
C29_CountersPartitionFiles ==
  /\ VisitedFiles \subseteq FilesInNonPrunedDirs
  /\ ignored_files = Cardinality({f \in VisitedFiles : FileIgnored(f, ignore_patterns)})
  /\ uploaded_files + skipped_files =
       Cardinality({f \in VisitedFiles : ~FileIgnored(f, ignore_patterns)})
  /\ uploaded_files = Cardinality(Succeeded)
  /\ skipped_files = Cardinality(Raised)
  /\ IgnoredDirs \cap visited = {}
  /\ IgnoredDirs \subseteq ReachedDirs
  /\ ignored_dirs_count = Cardinality(IgnoredDirs)
  /\ WalkEnded =>
       /\ uploaded_files + ignored_files + skipped_files = Cardinality(FilesInNonPrunedDirs)
       /\ \A d \in ReachedDirs : d \in IgnoredDirs \/ d \in visited

C29_Witness ==
  /\ WalkEnded
  /\ walk_case = "scenario"
  /\ uploaded_files = 1
  /\ skipped_files = 1
  /\ ignored_files = 1
  /\ ignored_dirs_count = 1

\* C30 as stated: when run_rag_setup_and_save_state has run with project
\* id, bucket name and target directory set, the call of
\* setup_rag_for_directory has yielded a corpus name, the state record has
\* been written and the function has returned True.
C30_SyncSetupReturnsTrue ==
  (sync_pc = "done" /\ is_setup_complete(global_rag_state)) =>
    /\ sync_raised = None
    /\ Truthy(global_rag_state.rag_corpus_name)
    /\ state_file = StateData(global_rag_state)
    /\ sync_return = "True"

====
